---------------------------- MODULE Spec2Model ----------------------------
(***************************************************************************)
(* The cinema ticket-booking API of src/cinema/views.py as a state machine.*)
(*                                                                         *)
(* The store (one variable per table), the result cache of the class-level *)
(* MovieSessionViewSet.queryset object, the order-creation requests in     *)
(* flight and the last response are the state; every handler of every      *)
(* viewset is one action.  Strings that the handlers parse (the genres,    *)
(* actors and movie query parameters, movie titles) are sequences of       *)
(* one-character strings, so that split(","), int() and icontains are      *)
(* computed rather than assumed.                                           *)
(***************************************************************************)
EXTENDS Integers, Sequences, FiniteSets

VARIABLES
    genres,        \* Genre table: sequence of names, id = index
    actors,        \* Actor table: sequence of full names, id = index
    halls,         \* CinemaHall table: sequence of [rows, seats_in_row]
    movies,        \* Movie table: sequence of [title, genres, actors, image]
    sessions,      \* MovieSession table: set of [id, movie, cinema_hall, show_time]
    nextSession,   \* next MovieSession primary key (keys are never reused)
    tickets,       \* Ticket table: sequence of [movie_session, row, seat, order]
    orders,        \* Order table: sequence of [user], id = index
    sessionCache,  \* _result_cache of the class attribute MovieSessionViewSet.queryset
    reqs,          \* order-creation requests in flight, per worker
    resp,          \* the last response: [user, view, action, status]
    query,         \* query parameters of the movies.list request under study
    listing        \* body of the last movies.list response: sequence of movie ids

vars == <<genres, actors, halls, movies, sessions, nextSession, tickets,
          orders, sessionCache, reqs, resp, query, listing>>

store == <<genres, actors, halls, movies, sessions, nextSession, tickets, orders>>

-----------------------------------------------------------------------------
(* Callers and the permission classes the viewsets name.                   *)

Users == {"anon", "alice", "bob", "admin"}

is_authenticated(u) == u # "anon"

is_staff(u) == u = "admin"

SAFE_METHODS == {"GET", "HEAD", "OPTIONS"}

IsAdminOrIfAuthenticatedReadOnly(u, method) ==
    \/ method \in SAFE_METHODS /\ is_authenticated(u)
    \/ is_staff(u)

IsAdminUser(u) == is_staff(u)

IsAuthenticated(u) == is_authenticated(u)

\* A request that fails its permission check: no credentials, or not enough.
Denied(u) == IF is_authenticated(u) THEN "permission_denied"
                                    ELSE "not_authenticated"

Response(u, view, action, status) ==
    [user |-> u, view |-> view, action |-> action, status |-> status]

NoResponse == Response("anon", "none", "none", "none")

-----------------------------------------------------------------------------
(* Strings.                                                                *)

Digits == {"0", "1", "2"}

DigitValue(c) == CASE c = "0" -> 0 [] c = "1" -> 1 [] c = "2" -> 2 [] OTHER -> 0

\* str.split(","): the pieces between the commas, empty pieces included.
RECURSIVE Split(_)
Split(s) ==
    IF \A i \in 1..Len(s) : s[i] # ","
    THEN <<s>>
    ELSE LET k == CHOOSE i \in 1..Len(s) :
                      s[i] = "," /\ \A j \in 1..(i - 1) : s[j] # ","
         IN  <<SubSeq(s, 1, k - 1)>> \o Split(SubSeq(s, k + 1, Len(s)))

\* int(str) succeeds on a non-empty run of digits and raises ValueError otherwise.
IsInt(tok) == Len(tok) > 0 /\ \A i \in 1..Len(tok) : tok[i] \in Digits

RECURSIVE IntOf(_)
IntOf(tok) ==
    IF Len(tok) = 0 THEN 0
    ELSE 10 * IntOf(SubSeq(tok, 1, Len(tok) - 1)) + DigitValue(tok[Len(tok)])

\* MovieViewSet._params_to_ints: [int(str_id) for str_id in qs.split(",")]
params_to_ints(qs) ==
    LET toks == Split(qs)
    IN  IF \A i \in 1..Len(toks) : IsInt(toks[i])
        THEN [raised |-> "none", ints |-> {IntOf(toks[i]) : i \in 1..Len(toks)}]
        ELSE [raised |-> "ValueError", ints |-> {}]

Lower(c) == CASE c = "A" -> "a" [] c = "B" -> "b" [] OTHER -> c

LowerStr(s) == [i \in 1..Len(s) |-> Lower(s[i])]

\* title__icontains: case-insensitive substring match.
icontains(text, needle) ==
    \E i \in 0..(Len(text) - Len(needle)) :
        SubSeq(LowerStr(text), i + 1, i + Len(needle)) = LowerStr(needle)

-----------------------------------------------------------------------------
(* Querysets over the Movie table: a queryset is the sequence of movie ids *)
(* its SQL yields, one per joined row.                                     *)

RECURSIVE Repeat(_, _)
Repeat(x, n) == IF n = 0 THEN <<>> ELSE <<x>> \o Repeat(x, n - 1)

\* filter(<relation>__id__in=ids): an inner join with the relation's link
\* table, so a movie appears once per related row whose id is listed.
RECURSIVE JoinIn(_, _, _)
JoinIn(qs, rel, ids) ==
    IF qs = <<>> THEN <<>>
    ELSE Repeat(Head(qs), Cardinality(movies[Head(qs)][rel] \cap ids))
             \o JoinIn(Tail(qs), rel, ids)

\* distinct(): each row once, first occurrence kept.
RECURSIVE distinct(_)
distinct(qs) ==
    IF qs = <<>> THEN <<>>
    ELSE LET rest == distinct(SubSeq(qs, 1, Len(qs) - 1))
             last == qs[Len(qs)]
         IN  IF \E i \in 1..Len(rest) : rest[i] = last
             THEN rest ELSE Append(rest, last)

AllMovies == [i \in 1..Len(movies) |-> i]

TitleFiltered(qs, title) ==
    IF title # <<>>
    THEN SelectSeq(qs, LAMBDA m : icontains(movies[m].title, title))
    ELSE qs

RelationFiltered(qs, rel, param) ==
    IF param # <<>>
    THEN JoinIn(qs, rel, params_to_ints(param).ints)
    ELSE qs

MovieRows(q) ==
    RelationFiltered(
        RelationFiltered(TitleFiltered(AllMovies, q.title), "genres", q.genres),
        "actors", q.actors)

MovieGetQuerysetNoDistinct(q) ==
    IF \/ q.genres # <<>> /\ params_to_ints(q.genres).raised # "none"
       \/ q.actors # <<>> /\ params_to_ints(q.actors).raised # "none"
    THEN [raised |-> "ValueError", rows |-> <<>>]
    ELSE [raised |-> "none", rows |-> MovieRows(q)]

\* MovieViewSet.get_queryset
MovieGetQueryset(q) ==
    IF \/ q.genres # <<>> /\ params_to_ints(q.genres).raised # "none"
       \/ q.actors # <<>> /\ params_to_ints(q.actors).raised # "none"
    THEN [raised |-> "ValueError", rows |-> <<>>]
    ELSE [raised |-> "none", rows |-> distinct(MovieRows(q))]

MoviePermission(u, method) == IsAdminOrIfAuthenticatedReadOnly(u, method)

NoFilters == [title |-> <<>>, genres |-> <<>>, actors |-> <<>>]

\* MovieViewSet.list.  An exception that is not an APIException leaves the
\* view uncaught and the framework answers 500.
MovieList(u, q) ==
    /\ IF ~MoviePermission(u, "GET")
       THEN /\ resp' = Response(u, "movies", "list", Denied(u))
            /\ listing' = <<>>
       ELSE LET qs == MovieGetQueryset(q)
            IN  IF qs.raised # "none"
                THEN /\ resp' = Response(u, "movies", "list", "server_error")
                     /\ listing' = <<>>
                ELSE /\ resp' = Response(u, "movies", "list", "ok")
                     /\ listing' = qs.rows
    /\ UNCHANGED <<store, sessionCache, reqs, query>>

-----------------------------------------------------------------------------
(* Genre, Actor and CinemaHall: CreateModelMixin + ListModelMixin.         *)

GenreNames == {"", "Drama"}

ActorNames == {"", "Tom Hanks"}

GenrePermission(u, method) == IsAdminOrIfAuthenticatedReadOnly(u, method)

ActorPermission(u, method) == IsAdminOrIfAuthenticatedReadOnly(u, method)

CinemaHallPermission(u, method) == IsAdminOrIfAuthenticatedReadOnly(u, method)

\* GenreSerializer.is_valid: the name is required and unique.
GenreValid(name) == name # "" /\ \A i \in 1..Len(genres) : genres[i] # name

\* ActorSerializer.is_valid: the names are required.
ActorValid(name) == name # ""

GenreList(u) ==
    /\ resp' = Response(u, "genres", "list",
                        IF GenrePermission(u, "GET") THEN "ok" ELSE Denied(u))
    /\ UNCHANGED <<store, sessionCache, reqs, query, listing>>

GenreCreate(u, name) ==
    /\ IF ~GenrePermission(u, "POST")
       THEN /\ resp' = Response(u, "genres", "create", Denied(u))
            /\ UNCHANGED genres
       ELSE IF ~GenreValid(name)
       THEN /\ resp' = Response(u, "genres", "create", "validation_error")
            /\ UNCHANGED genres
       ELSE /\ resp' = Response(u, "genres", "create", "created")
            /\ genres' = Append(genres, name)
    /\ UNCHANGED <<actors, halls, movies, sessions, nextSession, tickets, orders,
                   sessionCache, reqs, query, listing>>

ActorList(u) ==
    /\ resp' = Response(u, "actors", "list",
                        IF ActorPermission(u, "GET") THEN "ok" ELSE Denied(u))
    /\ UNCHANGED <<store, sessionCache, reqs, query, listing>>

ActorCreate(u, name) ==
    /\ IF ~ActorPermission(u, "POST")
       THEN /\ resp' = Response(u, "actors", "create", Denied(u))
            /\ UNCHANGED actors
       ELSE IF ~ActorValid(name)
       THEN /\ resp' = Response(u, "actors", "create", "validation_error")
            /\ UNCHANGED actors
       ELSE /\ resp' = Response(u, "actors", "create", "created")
            /\ actors' = Append(actors, name)
    /\ UNCHANGED <<genres, halls, movies, sessions, nextSession, tickets, orders,
                   sessionCache, reqs, query, listing>>

CinemaHallList(u) ==
    /\ resp' = Response(u, "cinema-halls", "list",
                        IF CinemaHallPermission(u, "GET") THEN "ok" ELSE Denied(u))
    /\ UNCHANGED <<store, sessionCache, reqs, query, listing>>

CinemaHallCreate(u, shape) ==
    /\ IF ~CinemaHallPermission(u, "POST")
       THEN /\ resp' = Response(u, "cinema-halls", "create", Denied(u))
            /\ UNCHANGED halls
       ELSE /\ resp' = Response(u, "cinema-halls", "create", "created")
            /\ halls' = Append(halls, shape)
    /\ UNCHANGED <<genres, actors, movies, sessions, nextSession, tickets, orders,
                   sessionCache, reqs, query, listing>>

-----------------------------------------------------------------------------
(* Movie: create, retrieve, upload_image (list is MovieList above).        *)

MoviePayloads ==
    {[title |-> <<"A">>, genres |-> {}, actors |-> {}],
     [title |-> <<"a", "B">>, genres |-> {1}, actors |-> {1}]}

\* MovieSerializer.is_valid: the related genres and actors must exist.
MovieValid(data) ==
    /\ data.genres \subseteq 1..Len(genres)
    /\ data.actors \subseteq 1..Len(actors)

MovieCreate(u, data) ==
    /\ IF ~MoviePermission(u, "POST")
       THEN /\ resp' = Response(u, "movies", "create", Denied(u))
            /\ UNCHANGED movies
       ELSE IF ~MovieValid(data)
       THEN /\ resp' = Response(u, "movies", "create", "validation_error")
            /\ UNCHANGED movies
       ELSE /\ resp' = Response(u, "movies", "create", "created")
            /\ movies' = Append(movies, [title |-> data.title, genres |-> data.genres,
                                         actors |-> data.actors, image |-> FALSE])
    /\ UNCHANGED <<genres, actors, halls, sessions, nextSession, tickets, orders,
                   sessionCache, reqs, query, listing>>

MovieRetrieve(u, pk) ==
    /\ resp' = Response(u, "movies", "retrieve",
                        IF ~MoviePermission(u, "GET") THEN Denied(u)
                        ELSE IF pk \notin 1..Len(movies) THEN "not_found"
                        ELSE "ok")
    /\ UNCHANGED <<store, sessionCache, reqs, query, listing>>

Files == {"image", "text"}

\* MovieImageSerializer.is_valid: the upload must be an image.
ImageValid(file) == file = "image"

UploadImagePermissionAuthenticated(u) == IsAuthenticated(u)

\* @action(..., permission_classes=[IsAdminUser])
UploadImagePermission(u) == IsAdminUser(u)

\* MovieViewSet.upload_image
MovieUploadImage(u, pk, file) ==
    /\ IF ~UploadImagePermission(u)
       THEN /\ resp' = Response(u, "movies", "upload_image", Denied(u))
            /\ UNCHANGED movies
       ELSE IF pk \notin 1..Len(movies)
       THEN /\ resp' = Response(u, "movies", "upload_image", "not_found")
            /\ UNCHANGED movies
       ELSE IF ~ImageValid(file)
       THEN /\ resp' = Response(u, "movies", "upload_image", "validation_error")
            /\ UNCHANGED movies
       ELSE /\ resp' = Response(u, "movies", "upload_image", "ok")
            /\ movies' = [movies EXCEPT ![pk].image = TRUE]
    /\ UNCHANGED <<genres, actors, halls, sessions, nextSession, tickets, orders,
                   sessionCache, reqs, query, listing>>

-----------------------------------------------------------------------------
(* MovieSession: a ModelViewSet, so list, create, retrieve, update,        *)
(* partial_update and destroy are all routed.                              *)

SessionPayloads ==
    {[movie |-> 1, cinema_hall |-> 1, show_time |-> [date |-> <<2024, 10, 10>>, hour |-> 18]],
     [movie |-> 2, cinema_hall |-> 2, show_time |-> [date |-> <<2024, 10, 11>>, hour |-> 21]],
     [movie |-> 1, cinema_hall |-> 2, show_time |-> [date |-> <<2024, 10, 11>>, hour |-> 21]]}

PatchPayloads ==
    {[cinema_hall |-> 2],
     [show_time |-> [date |-> <<2024, 10, 10>>, hour |-> 18]]}

\* The date parameter, split at "-"; the movie parameter, character by character.
DateParams == {<<>>, <<2024, 10, 10>>, <<2024, 10, 11>>, <<2024, 13, 1>>, <<2024, 10>>}

MovieParams == {<<>>, <<"1">>, <<"2">>, <<"a">>}

SessionParams == [date : DateParams, movie : MovieParams]

NoParams == [date |-> <<>>, movie |-> <<>>]

DaysInMonth(y, m) ==
    CASE m \in {4, 6, 9, 11} -> 30
      [] m = 2 -> IF (y % 4 = 0 /\ y % 100 # 0) \/ y % 400 = 0 THEN 29 ELSE 28
      [] OTHER -> 31

\* datetime.strptime(date, "%Y-%m-%d").date()
strptime(d) ==
    IF /\ Len(d) = 3
       /\ d[1] \in 1..9999
       /\ d[2] \in 1..12
       /\ d[3] \in 1..DaysInMonth(d[1], d[2])
    THEN [raised |-> "none", date |-> d]
    ELSE [raised |-> "ValueError", date |-> <<>>]

SessionPermissionAuthenticated(u, method) == IsAuthenticated(u)

\* permission_classes = (IsAdminOrIfAuthenticatedReadOnly,)
SessionPermission(u, method) == IsAdminOrIfAuthenticatedReadOnly(u, method)

SessionExists(pk) == \E s \in sessions : s.id = pk

SessionOf(pk) == CHOOSE s \in sessions : s.id = pk

\* Count("tickets")
TicketCount(pk) == Len(SelectSeq(tickets, LAMBDA t : t.movie_session = pk))

\* The annotation of MovieSessionViewSet.queryset, evaluated by the database.
tickets_available(s) ==
    halls[s.cinema_hall].rows * halls[s.cinema_hall].seats_in_row - TicketCount(s.id)

Annotated(s) ==
    [id |-> s.id, movie |-> s.movie, cinema_hall |-> s.cinema_hall,
     show_time |-> s.show_time, tickets_available |-> tickets_available(s)]

\* What the database answers for the class-level queryset now.
FetchAll == {Annotated(s) : s \in sessions}

\* MovieSessionViewSet.get_queryset.  With neither parameter the method
\* returns self.queryset itself, the one QuerySet object of the class; a
\* filter() returns a fresh clone of it.
SessionGetQueryset(p) ==
    IF p.date # <<>> /\ strptime(p.date).raised # "none"
    THEN [raised |-> "ValueError", shared |-> FALSE, date |-> <<>>, movie |-> <<>>]
    ELSE IF p.movie # <<>> /\ ~IsInt(p.movie)
    THEN [raised |-> "ValueError", shared |-> FALSE, date |-> <<>>, movie |-> <<>>]
    ELSE [raised |-> "none", shared |-> p.date = <<>> /\ p.movie = <<>>,
          date |-> p.date, movie |-> p.movie]

\* Iterating a QuerySet: one that holds a result cache yields it, one that
\* holds none asks the database (and keeps the answer).
Evaluate(qs) ==
    IF qs.shared
    THEN IF sessionCache.filled THEN sessionCache.rows ELSE FetchAll
    ELSE {r \in FetchAll :
            /\ qs.date # <<>> => r.show_time.date = strptime(qs.date).date
            /\ qs.movie # <<>> => r.movie = IntOf(qs.movie)}

\* Body of movie-sessions list for the parameters p.
SessionListBody(p) == Evaluate(SessionGetQueryset(p))

\* Body of movie-sessions retrieve: get_object() runs .get(pk=...) on a clone.
SessionRetrieveBody(pk) == Annotated(SessionOf(pk))

\* Outcome of movie-sessions list.  An exception that is not an
\* APIException leaves the view uncaught and the framework answers 500.
SessionListStatus(u, p) ==
    IF ~SessionPermission(u, "GET") THEN Denied(u)
    ELSE IF SessionGetQueryset(p).raised # "none" THEN "server_error"
    ELSE "ok"

\* MovieSessionViewSet.list: serializing the queryset iterates it.
SessionList(u, p) ==
    /\ resp' = Response(u, "movie-sessions", "list", SessionListStatus(u, p))
    /\ sessionCache' =
           IF /\ SessionListStatus(u, p) = "ok"
              /\ SessionGetQueryset(p).shared
              /\ ~sessionCache.filled
           THEN [filled |-> TRUE, rows |-> FetchAll]
           ELSE sessionCache
    /\ UNCHANGED <<store, reqs, query, listing>>

SessionRetrieve(u, pk) ==
    /\ resp' = Response(u, "movie-sessions", "retrieve",
                        IF ~SessionPermission(u, "GET") THEN Denied(u)
                        ELSE IF ~SessionExists(pk) THEN "not_found"
                        ELSE "ok")
    /\ UNCHANGED <<store, sessionCache, reqs, query, listing>>

\* MovieSessionSerializer.is_valid: the movie and the hall must exist.
SessionValid(data) ==
    /\ "movie" \in DOMAIN data => data.movie \in 1..Len(movies)
    /\ "cinema_hall" \in DOMAIN data => data.cinema_hall \in 1..Len(halls)

SessionCreate(u, data) ==
    /\ IF ~SessionPermission(u, "POST")
       THEN /\ resp' = Response(u, "movie-sessions", "create", Denied(u))
            /\ UNCHANGED <<sessions, nextSession>>
       ELSE IF ~SessionValid(data)
       THEN /\ resp' = Response(u, "movie-sessions", "create", "validation_error")
            /\ UNCHANGED <<sessions, nextSession>>
       ELSE /\ resp' = Response(u, "movie-sessions", "create", "created")
            /\ sessions' = sessions \cup
                   {[id |-> nextSession, movie |-> data.movie,
                     cinema_hall |-> data.cinema_hall, show_time |-> data.show_time]}
            /\ nextSession' = nextSession + 1
    /\ UNCHANGED <<genres, actors, halls, movies, tickets, orders,
                   sessionCache, reqs, query, listing>>

Updated(s, data) ==
    [f \in DOMAIN s |-> IF f \in DOMAIN data THEN data[f] ELSE s[f]]

\* UpdateModelMixin.update, for PUT (action "update", the whole row) and
\* PATCH (action "partial_update", the fields given).
SessionWrite(u, pk, data, method, action) ==
    /\ IF ~SessionPermission(u, method)
       THEN /\ resp' = Response(u, "movie-sessions", action, Denied(u))
            /\ UNCHANGED sessions
       ELSE IF ~SessionExists(pk)
       THEN /\ resp' = Response(u, "movie-sessions", action, "not_found")
            /\ UNCHANGED sessions
       ELSE IF ~SessionValid(data)
       THEN /\ resp' = Response(u, "movie-sessions", action, "validation_error")
            /\ UNCHANGED sessions
       ELSE /\ resp' = Response(u, "movie-sessions", action, "ok")
            /\ sessions' = (sessions \ {SessionOf(pk)})
                               \cup {Updated(SessionOf(pk), data)}
    /\ UNCHANGED <<genres, actors, halls, movies, nextSession, tickets, orders,
                   sessionCache, reqs, query, listing>>

SessionUpdate(u, pk, data) == SessionWrite(u, pk, data, "PUT", "update")

SessionPartialUpdate(u, pk, data) == SessionWrite(u, pk, data, "PATCH", "partial_update")

\* Ticket.movie_session is a foreign key: deleting a session deletes its tickets.
Cascade(pk) == SelectSeq(tickets, LAMBDA t : t.movie_session # pk)

SessionDestroy(u, pk) ==
    /\ IF ~SessionPermission(u, "DELETE")
       THEN /\ resp' = Response(u, "movie-sessions", "destroy", Denied(u))
            /\ UNCHANGED <<sessions, tickets>>
       ELSE IF ~SessionExists(pk)
       THEN /\ resp' = Response(u, "movie-sessions", "destroy", "not_found")
            /\ UNCHANGED <<sessions, tickets>>
       ELSE /\ resp' = Response(u, "movie-sessions", "destroy", "no_content")
            /\ sessions' = sessions \ {SessionOf(pk)}
            /\ tickets' = Cascade(pk)
    /\ UNCHANGED <<genres, actors, halls, movies, nextSession, orders,
                   sessionCache, reqs, query, listing>>

-----------------------------------------------------------------------------
(* Order: CreateModelMixin + ListModelMixin, IsAuthenticated.              *)

T(s, r, c) == [movie_session |-> s, row |-> r, seat |-> c]

OrderPayloads ==
    {<<T(1, 1, 1)>>, <<T(1, 2, 1)>>, <<T(1, 1, 4)>>, <<T(2, 1, 1)>>,
     <<T(1, 1, 1), T(1, 1, 1)>>, <<T(1, 1, 1), T(1, 2, 1)>>,
     <<T(1, 1, 2), T(1, 3, 1)>>}

\* The "user" key a caller may put into the payload.
Owners == {"none", "bob"}

OrderPermission(u) == IsAuthenticated(u)

SameSlot(a, b) ==
    a.movie_session = b.movie_session /\ a.row = b.row /\ a.seat = b.seat

\* Ticket validation: the seat lies in the hall of the ticket's session.
TicketInBounds(t) ==
    /\ SessionExists(t.movie_session)
    /\ t.row \in 1..halls[SessionOf(t.movie_session).cinema_hall].rows
    /\ t.seat \in 1..halls[SessionOf(t.movie_session).cinema_hall].seats_in_row

SeatTaken(t) == \E i \in 1..Len(tickets) : SameSlot(tickets[i], t)

RepeatedInPayload(p) ==
    \E i, j \in 1..Len(p) : i < j /\ SameSlot(p[i], p[j])

\* OrderSerializer.is_valid
OrderValid(p) ==
    /\ Len(p) > 0
    /\ \A i \in 1..Len(p) : TicketInBounds(p[i]) /\ ~SeatTaken(p[i])
    /\ ~RepeatedInPayload(p)

InsertViolatesNoUnique(p) ==
    \E i \in 1..Len(p) : ~SessionExists(p[i].movie_session)

\* The constraints of the Ticket table, checked by the database when the
\* rows are inserted: the session exists, (movie_session, row, seat) is unique.
InsertViolates(p) ==
    \/ \E i \in 1..Len(p) : ~SessionExists(p[i].movie_session) \/ SeatTaken(p[i])
    \/ RepeatedInPayload(p)

SavedUserFromPayload(u, owner) == IF owner # "none" THEN owner ELSE u

\* perform_create: serializer.save(user=self.request.user); the keyword
\* overrides whatever the validated data holds.
SavedUser(u, owner) == u

\* The order row and its ticket rows.  request_user and payload_user are
\* history: the caller the create request was authenticated as, and the
\* "user" its payload named.
NewOrder(u, owner) ==
    [user |-> SavedUser(u, owner), request_user |-> u, payload_user |-> owner]

NewTickets(p) ==
    [i \in 1..Len(p) |->
        [movie_session |-> p[i].movie_session, row |-> p[i].row,
         seat |-> p[i].seat, order |-> Len(orders) + 1]]

\* OrderViewSet.create with no other request interleaved.
OrderCreate(u, owner, p) ==
    /\ IF ~OrderPermission(u)
       THEN /\ resp' = Response(u, "orders", "create", Denied(u))
            /\ UNCHANGED <<orders, tickets>>
       ELSE IF ~OrderValid(p)
       THEN /\ resp' = Response(u, "orders", "create", "validation_error")
            /\ UNCHANGED <<orders, tickets>>
       ELSE IF InsertViolates(p)
       THEN /\ resp' = Response(u, "orders", "create", "conflict")
            /\ UNCHANGED <<orders, tickets>>
       ELSE /\ resp' = Response(u, "orders", "create", "created")
            /\ orders' = Append(orders, NewOrder(u, owner))
            /\ tickets' = tickets \o NewTickets(p)
    /\ UNCHANGED <<genres, actors, halls, movies, sessions, nextSession,
                   sessionCache, reqs, query, listing>>

\* OrderPagination.page_size
page_size == 10

Min(a, b) == IF a < b THEN a ELSE b

\* OrderViewSet.get_queryset: Order.objects.filter(user=self.request.user)
OrderGetQueryset(u) ==
    SelectSeq([i \in 1..Len(orders) |-> i], LAMBDA i : orders[i].user = u)

\* Body of orders list: the first page of the caller's orders.
OrderListBody(u) ==
    SubSeq(OrderGetQueryset(u), 1, Min(page_size, Len(OrderGetQueryset(u))))

OrderList(u) ==
    /\ resp' = Response(u, "orders", "list",
                        IF OrderPermission(u) THEN "ok" ELSE Denied(u))
    /\ UNCHANGED <<store, sessionCache, reqs, query, listing>>

-----------------------------------------------------------------------------
(* Two workers serving order creations at the same time: each request      *)
(* first validates and then, in a transaction of its own, inserts.         *)

Requests == {"w1", "w2"}

Idle == [pc |-> "idle", user |-> "anon", owner |-> "none", payload |-> <<>>]

\* CreateModelMixin.create, first half: serializer.is_valid(raise_exception=True)
OrderIsValid(r, u, owner, p) ==
    /\ reqs[r].pc = "idle"
    /\ IF ~OrderPermission(u)
       THEN /\ resp' = Response(u, "orders", "create", Denied(u))
            /\ UNCHANGED reqs
       ELSE IF ~OrderValid(p)
       THEN /\ resp' = Response(u, "orders", "create", "validation_error")
            /\ reqs' = [reqs EXCEPT ![r] = [pc |-> "validation_error", user |-> u,
                                            owner |-> owner, payload |-> p]]
       ELSE /\ UNCHANGED resp
            /\ reqs' = [reqs EXCEPT ![r] = [pc |-> "validated", user |-> u,
                                            owner |-> owner, payload |-> p]]
    /\ UNCHANGED <<store, sessionCache, query, listing>>

\* The insert without its transaction: the rows written before the
\* violation stay.
OrderPerformCreateNotAtomic(r) ==
    /\ reqs[r].pc = "validated"
    /\ IF InsertViolates(reqs[r].payload)
       THEN /\ resp' = Response(reqs[r].user, "orders", "create", "conflict")
            /\ reqs' = [reqs EXCEPT ![r].pc = "conflict"]
       ELSE /\ resp' = Response(reqs[r].user, "orders", "create", "created")
            /\ reqs' = [reqs EXCEPT ![r].pc = "created"]
    /\ orders' = Append(orders, NewOrder(reqs[r].user, reqs[r].owner))
    /\ tickets' = tickets \o
           SelectSeq(NewTickets(reqs[r].payload), LAMBDA t : ~SeatTaken(t))
    /\ UNCHANGED <<genres, actors, halls, movies, sessions, nextSession,
                   sessionCache, query, listing>>

\* CreateModelMixin.create, second half: perform_create(serializer)
OrderPerformCreate(r) ==
    /\ reqs[r].pc = "validated"
    /\ IF InsertViolates(reqs[r].payload)
       THEN /\ resp' = Response(reqs[r].user, "orders", "create", "conflict")
            /\ reqs' = [reqs EXCEPT ![r].pc = "conflict"]
            /\ UNCHANGED <<orders, tickets>>
       ELSE /\ resp' = Response(reqs[r].user, "orders", "create", "created")
            /\ reqs' = [reqs EXCEPT ![r].pc = "created"]
            /\ orders' = Append(orders, NewOrder(reqs[r].user, reqs[r].owner))
            /\ tickets' = tickets \o NewTickets(reqs[r].payload)
    /\ UNCHANGED <<genres, actors, halls, movies, sessions, nextSession,
                   sessionCache, query, listing>>

-----------------------------------------------------------------------------
(* Initial states.                                                         *)

EmptyCache == [filled |-> FALSE, rows |-> {}]

NoRequests == [r \in Requests |-> Idle]

\* The store right after the migrations: every table empty.
InitEmpty ==
    /\ genres = <<>> /\ actors = <<>> /\ halls = <<>> /\ movies = <<>>
    /\ sessions = {} /\ nextSession = 1 /\ tickets = <<>> /\ orders = <<>>
    /\ sessionCache = EmptyCache
    /\ reqs = NoRequests
    /\ resp = NoResponse
    /\ query = NoFilters
    /\ listing = <<>>

\* A catalog an administrator has filled: one genre, one actor, two halls
\* (2 x 3 and 1 x 3) and two movies.
FixtureHalls == <<[rows |-> 2, seats_in_row |-> 3], [rows |-> 1, seats_in_row |-> 3]>>

FixtureMovies ==
    <<[title |-> <<"A">>, genres |-> {}, actors |-> {}, image |-> FALSE],
      [title |-> <<"a", "B">>, genres |-> {1}, actors |-> {1}, image |-> FALSE]>>

InitCatalog ==
    /\ genres = <<"Drama">> /\ actors = <<"Tom Hanks">>
    /\ halls = FixtureHalls /\ movies = FixtureMovies
    /\ sessions = {} /\ nextSession = 1 /\ tickets = <<>> /\ orders = <<>>
    /\ sessionCache = EmptyCache
    /\ reqs = NoRequests
    /\ resp = NoResponse
    /\ query = NoFilters
    /\ listing = <<>>

\* The same catalog with one session of movie 1 scheduled in the 2 x 3 hall.
FixtureSession ==
    [id |-> 1, movie |-> 1, cinema_hall |-> 1,
     show_time |-> [date |-> <<2024, 10, 10>>, hour |-> 18]]

InitBooking ==
    /\ genres = <<"Drama">> /\ actors = <<"Tom Hanks">>
    /\ halls = FixtureHalls /\ movies = FixtureMovies
    /\ sessions = {FixtureSession} /\ nextSession = 2
    /\ tickets = <<>> /\ orders = <<>>
    /\ sessionCache = EmptyCache
    /\ reqs = NoRequests
    /\ resp = NoResponse
    /\ query = NoFilters
    /\ listing = <<>>

-----------------------------------------------------------------------------
(* Spec: orders placed one request at a time.                              *)

MaxOrders == 2

Init == InitBooking

Next ==
    \/ \E u \in Users, owner \in Owners, p \in OrderPayloads :
           Len(orders) < MaxOrders /\ OrderCreate(u, owner, p)
    \/ \E u \in Users : OrderList(u)

Spec == Init /\ [][Next]_vars

-----------------------------------------------------------------------------
(* SpecRace: two order creations served at the same time.                  *)

NextRace ==
    \/ \E r \in Requests, u \in Users, owner \in Owners, p \in OrderPayloads :
           OrderIsValid(r, u, owner, p)
    \/ \E r \in Requests : OrderPerformCreate(r)

SpecRace == InitBooking /\ [][NextRace]_vars

-----------------------------------------------------------------------------
(* SpecMovies: movies.list over every small movie table and query.         *)

MaxTable == 2

MaxParamLen == 3

MovieTableRows ==
    {[title |-> <<"A", "b">>, genres |-> {1, 2}, actors |-> {1}, image |-> FALSE],
     [title |-> <<"b">>, genres |-> {2}, actors |-> {}, image |-> FALSE],
     [title |-> <<"B", "A">>, genres |-> {}, actors |-> {1, 2}, image |-> FALSE],
     [title |-> <<"a", "B">>, genres |-> {1}, actors |-> {2}, image |-> FALSE]}

MovieTables == UNION {[1..n -> MovieTableRows] : n \in 0..MaxTable}

ParamChars == {"1", "2", ",", "a"}

ParamStrings == UNION {[1..n -> ParamChars] : n \in 0..MaxParamLen}

TitleParams == {<<>>, <<"a">>, <<"A", "B">>, <<"b", "a">>}

ActorParams == {<<>>, <<"1">>, <<"1", ",", "2">>, <<"a">>}

Queries == [title : TitleParams, genres : ParamStrings, actors : ActorParams]

InitMovies ==
    /\ genres = <<"Drama", "Comedy">> /\ actors = <<"Tom Hanks", "Meg Ryan">>
    /\ halls = <<>>
    /\ movies \in MovieTables
    /\ sessions = {} /\ nextSession = 1 /\ tickets = <<>> /\ orders = <<>>
    /\ sessionCache = EmptyCache
    /\ reqs = NoRequests
    /\ resp = NoResponse
    /\ query \in Queries
    /\ listing = <<>>

NextMovies == \E u \in {"anon", "alice"} : MovieList(u, query)

SpecMovies == InitMovies /\ [][NextMovies]_vars

-----------------------------------------------------------------------------
(* SpecSessions: the movie-session endpoints and the orders that sell      *)
(* their seats, on the filled catalog.                                     *)

MaxSessions == 2

SessionPks == 1..MaxSessions

SessionOrderPayloads == {<<T(1, 1, 1)>>, <<T(1, 2, 1)>>}

\* alice reads and books, the administrator schedules.
NextSessions ==
    \/ \E p \in SessionParams : SessionList("alice", p)
    \/ \E pk \in SessionPks : SessionRetrieve("alice", pk)
    \/ \E data \in SessionPayloads :
           nextSession <= MaxSessions /\ SessionCreate("admin", data)
    \/ \E pk \in SessionPks, data \in SessionPayloads :
           SessionUpdate("admin", pk, data)
    \/ \E pk \in SessionPks, data \in PatchPayloads :
           SessionPartialUpdate("admin", pk, data)
    \/ \E pk \in SessionPks : SessionDestroy("admin", pk)
    \/ \E p \in SessionOrderPayloads :
           Len(orders) < MaxOrders /\ OrderCreate("alice", "none", p)

SpecSessions == InitCatalog /\ [][NextSessions]_vars

-----------------------------------------------------------------------------
(* SpecAccess: every handler, called by every kind of caller, from the     *)
(* empty store.                                                            *)

MaxRows == 4

Rows ==
    Len(genres) + Len(actors) + Len(halls) + Len(movies)
        + (nextSession - 1) + Len(orders)

AccessPks == {1}

AccessUsers == {"anon", "alice", "admin"}

AccessShapes == {[rows |-> 2, seats_in_row |-> 3]}

AccessSessionPayloads ==
    {[movie |-> 1, cinema_hall |-> 1, show_time |-> [date |-> <<2024, 10, 10>>, hour |-> 18]],
     [movie |-> 2, cinema_hall |-> 2, show_time |-> [date |-> <<2024, 10, 11>>, hour |-> 21]]}

NextAccess ==
    \/ \E u \in AccessUsers : GenreList(u)
    \/ \E u \in AccessUsers, name \in GenreNames : Rows < MaxRows /\ GenreCreate(u, name)
    \/ \E u \in AccessUsers : ActorList(u)
    \/ \E u \in AccessUsers, name \in ActorNames : Rows < MaxRows /\ ActorCreate(u, name)
    \/ \E u \in AccessUsers : CinemaHallList(u)
    \/ \E u \in AccessUsers, shape \in AccessShapes :
           Rows < MaxRows /\ CinemaHallCreate(u, shape)
    \/ \E u \in AccessUsers : MovieList(u, NoFilters)
    \/ \E u \in AccessUsers, data \in MoviePayloads :
           Rows < MaxRows /\ MovieCreate(u, data)
    \/ \E u \in AccessUsers, pk \in AccessPks : MovieRetrieve(u, pk)
    \/ \E u \in AccessUsers, pk \in AccessPks, file \in Files : MovieUploadImage(u, pk, file)
    \/ \E u \in AccessUsers : SessionList(u, NoParams)
    \/ \E u \in AccessUsers, pk \in AccessPks : SessionRetrieve(u, pk)
    \/ \E u \in AccessUsers, data \in AccessSessionPayloads :
           Rows < MaxRows /\ SessionCreate(u, data)
    \/ \E u \in AccessUsers, pk \in AccessPks, data \in AccessSessionPayloads :
           SessionUpdate(u, pk, data)
    \/ \E u \in AccessUsers, pk \in AccessPks, data \in PatchPayloads :
           SessionPartialUpdate(u, pk, data)
    \/ \E u \in AccessUsers, pk \in AccessPks : SessionDestroy(u, pk)
    \/ \E u \in AccessUsers : Rows < MaxRows /\ OrderCreate(u, "none", <<T(1, 1, 1)>>)
    \/ \E u \in AccessUsers : OrderList(u)

SpecAccess == InitEmpty /\ [][NextAccess]_vars

-----------------------------------------------------------------------------
(* C1.  movies.list returns exactly the movies that satisfy every supplied *)
(* filter, each of them once.                                              *)

SameLetter(a, b) ==
    \/ a = b
    \/ {a, b} = {"a", "A"}
    \/ {a, b} = {"b", "B"}

C1_TitleMatches(m) ==
    \E i \in 0..(Len(movies[m].title) - Len(query.title)) :
        \A k \in 1..Len(query.title) :
            SameLetter(movies[m].title[i + k], query.title[k])

C1_Listed(param) == params_to_ints(param).ints

C1_Expected ==
    {m \in 1..Len(movies) :
        /\ query.title # <<>> => C1_TitleMatches(m)
        /\ query.genres # <<>> => movies[m].genres \cap C1_Listed(query.genres) # {}
        /\ query.actors # <<>> => movies[m].actors \cap C1_Listed(query.actors) # {}}

C1_WellFormed(param) ==
    param = <<>> \/ \A i \in 1..Len(Split(param)) : IsInt(Split(param)[i])

\* C1: for every combination of the title, genres and actors filters, an
\* authenticated movies.list with well-formed ids answers with exactly the
\* movies that satisfy every supplied filter, and lists no movie twice.
C1_ListIsIntersectionOnce ==
    (/\ resp.view = "movies" /\ resp.action = "list"
     /\ is_authenticated(resp.user)
     /\ C1_WellFormed(query.genres) /\ C1_WellFormed(query.actors))
    => /\ resp.status = "ok"
       /\ {listing[i] : i \in 1..Len(listing)} = C1_Expected
       /\ \A i, j \in 1..Len(listing) : listing[i] = listing[j] => i = j

\* A movie tagged with both listed genres is returned, with all three
\* filters supplied.
C1_Witness ==
    /\ resp.view = "movies" /\ resp.status = "ok"
    /\ query.title # <<>> /\ query.actors # <<>>
    /\ query.genres = <<"1", ",", "2">>
    /\ \E i \in 1..Len(listing) : movies[listing[i]].genres = {1, 2}
    /\ Len(listing) < Len(movies)

-----------------------------------------------------------------------------
(* C7.  A malformed genres, actors or movie parameter.                     *)

C7_Malformed(param) ==
    param # <<>> /\ \E i \in 1..Len(Split(param)) : ~IsInt(Split(param)[i])

\* C7: a genres or actors parameter of movies.list with a non-integer
\* element (an empty one included) makes the request fail with a
\* ValidationError; the list is never returned unfiltered.  The movie
\* parameter of movie-sessions.list goes through the same int().
C7_MalformedIsValidationError ==
    (/\ resp.view = "movies" /\ resp.action = "list"
     /\ is_authenticated(resp.user)
     /\ C7_Malformed(query.genres) \/ C7_Malformed(query.actors))
    => resp.status = "validation_error"

-----------------------------------------------------------------------------
(* C5.  orders.list shows a caller their own orders only.                  *)

\* C5: every order is owned by the caller its create request was
\* authenticated as, whatever "user" the payload named, and orders.list for
\* a user returns only orders that user's requests created.
C5_OwnOrdersOnly ==
    /\ \A i \in 1..Len(orders) : orders[i].user = orders[i].request_user
    /\ \A u \in Users : \A k \in 1..Len(OrderListBody(u)) :
           orders[OrderListBody(u)[k]].request_user = u

\* alice has placed an order whose payload named bob, and bob one of his own.
C5_Witness ==
    /\ \E i \in 1..Len(orders) :
           orders[i].request_user = "alice" /\ orders[i].payload_user = "bob"
    /\ \E i \in 1..Len(orders) : orders[i].request_user = "bob"
    /\ OrderListBody("alice") # <<>>
    /\ OrderListBody("bob") # <<>>

-----------------------------------------------------------------------------
(* C2.  Order creation is all-or-nothing.                                  *)

C2_OutOfBounds(t) ==
    /\ SessionExists(t.movie_session)
    /\ LET h == halls[SessionOf(t.movie_session).cinema_hall]
       IN  t.row > h.rows \/ t.seat > h.seats_in_row

C2_Bad(p) ==
    \/ \E i \in 1..Len(p) : C2_OutOfBounds(p[i])
    \/ \E i \in 1..Len(p), k \in 1..Len(tickets) : SameSlot(p[i], tickets[k])
    \/ \E i, j \in 1..Len(p) : i # j /\ SameSlot(p[i], p[j])

C2_Step ==
    /\ \A r \in Requests :
          /\ (/\ reqs[r].pc = "idle" /\ reqs'[r].pc # "idle"
              /\ C2_Bad(reqs'[r].payload))
             => (reqs'[r].pc = "validation_error" /\ store' = store)
          /\ (/\ reqs'[r].pc \in {"validation_error", "conflict"}
              /\ reqs'[r].pc # reqs[r].pc)
             => store' = store
    /\ store' # store =>
          \E r \in Requests :
              /\ reqs[r].pc = "validated" /\ reqs'[r].pc = "created"
              /\ ~C2_Bad(reqs[r].payload)
              /\ Len(orders') = Len(orders) + 1
              /\ Len(tickets') = Len(tickets) + Len(reqs[r].payload)

\* C2: a create whose payload holds a seat outside the hall, a seat already
\* taken or the same seat twice ends in a validation error; every create
\* that fails leaves the store as it was; and the store only ever changes by
\* one order together with all the tickets of its payload.
C2_AllOrNothing == [][C2_Step]_vars

\* A request whose first ticket is fine and whose second is outside the hall
\* has failed, and nothing of it is stored.
C2_Witness ==
    \E r \in Requests :
        /\ reqs[r].pc = "validation_error"
        /\ reqs[r].payload = <<T(1, 1, 2), T(1, 3, 1)>>
        /\ \A k \in 1..Len(tickets) : ~SameSlot(tickets[k], T(1, 1, 2))

-----------------------------------------------------------------------------
(* C3.  Two concurrent order creations for the same seat.                  *)

Finished(r) == reqs[r].pc \in {"created", "conflict", "validation_error"}

C3_InHall(p) ==
    /\ \A i \in 1..Len(p) : SessionExists(p[i].movie_session) /\ ~C2_OutOfBounds(p[i])
    /\ \A i, j \in 1..Len(p) : i # j => ~SameSlot(p[i], p[j])

C3_Shared(p1, p2) ==
    {t \in {p1[i] : i \in 1..Len(p1)} : \E j \in 1..Len(p2) : SameSlot(t, p2[j])}

\* C3: of two order creations that ask for the same free seat, interleaved
\* in any way, exactly one succeeds, the other fails with a conflict or
\* validation error, and the seat holds exactly one ticket afterwards.
C3_ExactlyOneWins ==
    \A r1, r2 \in Requests :
        (/\ r1 # r2 /\ Finished(r1) /\ Finished(r2)
         /\ C3_InHall(reqs[r1].payload) /\ C3_InHall(reqs[r2].payload)
         /\ C3_Shared(reqs[r1].payload, reqs[r2].payload) # {})
        => /\ Cardinality({r \in {r1, r2} : reqs[r].pc = "created"}) = 1
           /\ \A t \in C3_Shared(reqs[r1].payload, reqs[r2].payload) :
                  Len(SelectSeq(tickets, LAMBDA x : SameSlot(x, t))) = 1

\* Both requests passed validation before either inserted; one was then
\* refused by the store.
C3_Witness ==
    \E r1, r2 \in Requests :
        /\ reqs[r1].pc = "created" /\ reqs[r2].pc = "conflict"
        /\ C3_Shared(reqs[r1].payload, reqs[r2].payload) # {}

-----------------------------------------------------------------------------
(* C4.  tickets_available as returned by movie-sessions list and retrieve. *)

C4_Capacity(pk) ==
    halls[SessionOf(pk).cinema_hall].rows * halls[SessionOf(pk).cinema_hall].seats_in_row

C4_Sold(pk) == Cardinality({i \in 1..Len(tickets) : tickets[i].movie_session = pk})

\* C4: in every state, the tickets_available that movie-sessions list (for
\* any parameters) and retrieve return for a session is the capacity of its
\* hall minus the number of tickets stored for it.
C4_TicketsAvailableIsCurrent ==
    /\ \A p \in SessionParams :
           SessionListStatus("alice", p) = "ok" =>
               \A r \in SessionListBody(p) :
                   SessionExists(r.id) =>
                       r.tickets_available = C4_Capacity(r.id) - C4_Sold(r.id)
    /\ \A s \in sessions :
           SessionRetrieveBody(s.id).tickets_available
               = C4_Capacity(s.id) - C4_Sold(s.id)

-----------------------------------------------------------------------------
(* C10.  The date and movie filters of movie-sessions.list.                *)

C10_Expected(p) ==
    {s.id : s \in {x \in sessions :
                     /\ p.date # <<>> => x.show_time.date = p.date
                     /\ p.movie # <<>> => x.movie = IntOf(p.movie)}}

\* C10: for every combination of the date and movie parameters,
\* movie-sessions.list returns exactly the sessions on that day (when date
\* is given) of that movie (when movie is given), and every session when
\* neither is given.
C10_ListIsFiltered ==
    \A p \in SessionParams :
        SessionListStatus("alice", p) = "ok" =>
            {r.id : r \in SessionListBody(p)} = C10_Expected(p)

-----------------------------------------------------------------------------
(* C9.  Every stored ticket is a seat of its session's hall, sold once.    *)

\* C9: in every reachable state each ticket's row and seat lie within the
\* hall of its session, and no two tickets share (session, row, seat).
C9_TicketsFitAndUnique ==
    /\ \A i \in 1..Len(tickets) :
           /\ SessionExists(tickets[i].movie_session)
           /\ tickets[i].row <= halls[SessionOf(tickets[i].movie_session).cinema_hall].rows
           /\ tickets[i].seat
                  <= halls[SessionOf(tickets[i].movie_session).cinema_hall].seats_in_row
    /\ \A i, j \in 1..Len(tickets) :
           SameSlot(tickets[i], tickets[j]) => i = j

-----------------------------------------------------------------------------
(* C6.  Only an administrator changes the catalog.                         *)

CatalogViews == {"genres", "actors", "cinema-halls", "movies", "movie-sessions"}

ReadActions == {"list", "retrieve"}

C6_Responses ==
    resp.view \in CatalogViews =>
        /\ resp.user = "anon" => resp.status = "not_authenticated"
        /\ (is_authenticated(resp.user) /\ resp.action \in ReadActions)
               => resp.status \in {"ok", "not_found"}
        /\ (~is_staff(resp.user) /\ resp.action \notin ReadActions)
               => resp.status \in {"not_authenticated", "permission_denied"}

C6_Step ==
    ~is_staff(resp'.user) => UNCHANGED <<genres, actors, halls, movies, sessions>>

\* C6: a request of a caller who is not an administrator never changes the
\* genres, actors, halls, movies (or a movie's image) or sessions; every
\* write to them by such a caller is refused, every read by an authenticated
\* caller is served, and an anonymous caller is refused both.
C6_AdminOnlyWrites == [](C6_Responses) /\ [][C6_Step]_vars

\* alice was refused an image upload to an existing movie.
C6_Witness ==
    /\ resp = Response("alice", "movies", "upload_image", "permission_denied")
    /\ Len(movies) > 0
    /\ sessions # {}

-----------------------------------------------------------------------------
(* C8.  What the endpoints can remove.                                     *)

Kept(old, new) ==
    Len(old) <= Len(new) /\ \A i \in 1..Len(old) : new[i] = old[i]

MoviesKept ==
    /\ Len(movies) <= Len(movies')
    /\ \A i \in 1..Len(movies) : movies'[i].title = movies[i].title

SessionsKept == \A s \in sessions : \E t \in sessions' : t.id = s.id

C8_NothingRemoved ==
    /\ Kept(genres, genres') /\ Kept(actors, actors') /\ Kept(halls, halls')
    /\ MoviesKept /\ SessionsKept
    /\ Kept(orders, orders') /\ Kept(tickets, tickets')

\* C8 as claimed: over any sequence of requests no genre, actor, hall,
\* movie, session, order or ticket is ever removed.
C8_NoEndpointDeletes == [][C8_NothingRemoved]_vars

C8_AmendedStep ==
    /\ Kept(genres, genres') /\ Kept(actors, actors') /\ Kept(halls, halls')
    /\ MoviesKept /\ Kept(orders, orders')
    /\ ~SessionsKept =>
           /\ is_staff(resp'.user)
           /\ resp' = Response(resp'.user, "movie-sessions", "destroy", "no_content")
    /\ ~Kept(tickets, tickets') =>
           /\ ~SessionsKept
           /\ \A i \in 1..Len(tickets) :
                  (\E t \in sessions' : t.id = tickets[i].movie_session)
                      => \E k \in 1..Len(tickets') : tickets'[k] = tickets[i]

\* C8 amended: no genre, actor, hall, movie or order is ever removed; a
\* session is removed only by an administrator's destroy on movie-sessions,
\* and a ticket only together with its session.
C8_OnlySessionDestroyRemoves == [][C8_AmendedStep]_vars

\* The administrator has deleted the session an order had a ticket for.
C8_Witness ==
    /\ resp = Response("admin", "movie-sessions", "destroy", "no_content")
    /\ Len(orders) = 1 /\ tickets = <<>> /\ sessions = {}
    /\ Len(movies) > 0 /\ Len(halls) > 0

=============================================================================
